---- MODULE Spec2Model ----
(***************************************************************************)
(* The simulation lifecycle controller of pyrep/pyrep.py (class PyRep):    *)
(* launch, start, stop, step, step_ui, shutdown, the Session Thread        *)
(* (_run_ui_thread) and the Responsive Loop (_run_responsive_ui_thread).   *)
(*                                                                         *)
(* Every thread has a call stack pc[t] of program points; a program point  *)
(* is named <method>_<source line>.  One step of the model executes one    *)
(* statement that reads or writes shared state (a field another thread     *)
(* may write, the engine, the step lock).  Statements that touch only the  *)
(* thread's own locals, and reads of self._ui_thread (which no other       *)
(* thread writes while the reader runs), are folded into the shared        *)
(* statement that follows them.  A call is a push of the callee's entry    *)
(* point: the stack holds, innermost first, the points still to execute.   *)
(* The diagnostic queries of launch (lines 154-227 and 249-270) read the   *)
(* engine only, catch their own exceptions and touch no field of the       *)
(* controller: they are left out.  time.sleep is a scheduling point only.  *)
(***************************************************************************)
EXTENDS Integers, Sequences, FiniteSets, TLC

\* ------------------------------------------------------------ bounds
\* Threads that launch may create (Session Threads, Responsive Loops).
MaxLaunch == 2
\* Iterations of the stepping loop of launch(blocking=True) that are traced.
MaxBlockingSteps == 1
\* Launches when a second caller thread steps beside the lifecycle caller.
MaxLaunchTwoCallers == 1

\* Calls made by a caller that calls launch on a launched controller too.
MaxCalls == 3

\* ------------------------------------------------------------ constants
\* range(5) in stop(): the UI-refresh steps after a stop.
StopUiSteps == 5
\* The value of a thread handle field that holds no thread (Python None).
None == 0

VARIABLES
    running,                \* self.running
    ui_thread,              \* self._ui_thread: None or the index of a Session Thread
    responsive_ui_thread,   \* self._responsive_ui_thread: None or the index of a Responsive Loop
    shutting_down,          \* self._shutting_down
    step_lock,              \* utils.step_lock: the thread holding it, or Free
    pc,                     \* the call stack of every thread, innermost first
    result,                 \* how the thread's top-level call ended ("none": not yet)
    sess,                   \* the Session Threads: "unstarted", "running", "done"
    launches,               \* the number of Session Threads created so far
    can_init,               \* engine: simExtCanInitSimThread()
    sim_thread,             \* engine: "none", "init" (simExtSimThreadInit), "destroyed"
    exit_request,           \* engine: simExtGetExitRequest()
    sim_running,            \* engine: the physics simulation is started
    op,                     \* history: the top-level call a thread is executing
    trace,                  \* history: engine calls and field writes of that call, in order
    after_start,            \* history: the caller's previous call was a start() that returned
    script,                 \* history: progress of the caller through the end-to-end run
    rl_hist,                \* history: why a Responsive Loop left its loop, its shutdown() calls
    ncalls                  \* history: calls made by a caller whose calls are counted

fields  == <<running, ui_thread, responsive_ui_thread, shutting_down>>
engine  == <<can_init, sim_thread, exit_request, sim_running>>
threads == <<sess, launches>>
history == <<op, trace, after_start, script, rl_hist, ncalls>>
vars    == <<running, ui_thread, responsive_ui_thread, shutting_down, step_lock,
             pc, result, sess, launches, can_init, sim_thread,
             exit_request, sim_running, op, trace, after_start, script, rl_hist,
             ncalls>>

\* ------------------------------------------------------------ threads
Main     == <<"main", 0>>       \* the thread that makes the lifecycle calls
Aux      == <<"aux", 0>>        \* a second caller thread: it only steps
Free     == <<"free", 0>>       \* the step lock's holder when nobody holds it
Loop(i)  == <<"loop", i>>       \* the Responsive Loop thread created by launch number i
Callers  == {Main, Aux}
Loops    == {Loop(i) : i \in 1..MaxLaunch}
Threads  == Callers \cup Loops

\* the errors the methods raise: PyRepError with these messages. The error
\* for a call before launch is the specification's NotLaunchedError, the one
\* for a scene file that does not exist its ConfigurationError.
ErrNotLaunched == "PyRepError: CoppeliaSim has not been launched. Call launch first."
ErrSceneFile == "PyRepError: Scene file does not exist"

Scenes  == {"", "missing", "exists"}   \* scene_file: empty, not a file, a file
NoOp    == [name |-> "", scene |-> "", responsive |-> FALSE, blocking |-> FALSE,
            launched |-> FALSE]
NoHist  == [broke |-> "", sd |-> FALSE, calls |-> 0]

\* ------------------------------------------------------------ control
At(t, l)   == pc[t] # <<>> /\ Head(pc[t]) = l
\* where a thread is once its outermost call has ended: the caller holds the
\* outcome ("ret"), a Responsive Loop is about to die ("exit"); the second
\* caller thread keeps no outcome and is idle at once
Ended(t)   == IF t = Main THEN <<"ret">> ELSE IF t = Aux THEN <<>> ELSE <<"exit">>
Goto(t, l) == pc' = [pc EXCEPT ![t] = <<l>> \o Tail(@)] /\ UNCHANGED result
\* the statement calls methods: their entry points (and the point to resume
\* at) replace the current point
Push(t, points) == pc' = [pc EXCEPT ![t] = points \o Tail(@)] /\ UNCHANGED result
\* return from a method; the outermost return ends the call (or the thread)
Return(t) ==
    IF Len(pc[t]) = 1
    THEN /\ pc' = [pc EXCEPT ![t] = Ended(t)]
         /\ result' = [result EXCEPT ![t] = IF t = Aux THEN @ ELSE "ok"]
    ELSE /\ pc' = [pc EXCEPT ![t] = Tail(@)]
         /\ UNCHANGED result
\* raise: no frame of these call paths catches PyRepError or RuntimeError, so
\* the exception unwinds the whole stack and ends the call (or the thread)
Raise(t, e) ==
    /\ pc' = [pc EXCEPT ![t] = Ended(t)]
    /\ result' = [result EXCEPT ![t] = e]

\* history: one more event of the call thread t is executing
Log(t, e) ==
    trace' = [trace EXCEPT ![t] = IF op[t].name = "" THEN @ ELSE Append(@, e)]
Count(s, e) == Cardinality({k \in 1..Len(s) : s[k] = e})

\* ------------------------------------------------------------ step lock
\* `with utils.step_lock:` entered and left (a mutual-exclusion lock)
Acquire(t) == step_lock = Free /\ step_lock' = t
Release(t) == step_lock' = IF step_lock = t THEN Free ELSE step_lock

\* ------------------------------------------------------------ engine
\* sim.simExtStep(stepIfRunning): physics advances only when asked to and the
\* simulation is started; otherwise the call refreshes the UI
simExtStep(t, stepIfRunning) ==
    Log(t, IF stepIfRunning /\ sim_running THEN "step_adv" ELSE "step_ui")

\* the engine reports that its simulation thread can be initialized
EngineReady ==
    /\ \E i \in 1..MaxLaunch : sess[i] = "running"
    /\ ~can_init
    /\ can_init' = TRUE
    /\ UNCHANGED <<fields, step_lock, pc, result, threads,
                   sim_thread, exit_request, sim_running, history>>

\* the user closes the engine's window: the ExitSignal is raised
UserExit ==
    /\ \E i \in 1..MaxLaunch : sess[i] = "running"
    /\ sim_thread = "init"
    /\ ~exit_request
    /\ exit_request' = TRUE
    /\ UNCHANGED <<fields, step_lock, pc, result, threads,
                   can_init, sim_thread, sim_running, history>>

\* _run_ui_thread: simExtLaunchUIThread returns once the exit request is
\* posted and the simulation thread is destroyed; the Session Thread ends
_run_ui_thread(i) ==
    /\ sess[i] = "running"
    /\ exit_request
    /\ sim_thread = "destroyed"
    /\ sess' = [sess EXCEPT ![i] = "done"]
    /\ UNCHANGED <<fields, step_lock, pc, result, launches, engine, history>>

\* ------------------------------------------------------------ step, step_ui
step_unlocked(t) ==
    \/ /\ At(t, "step_349")
       /\ Goto(t, "step_350")
       /\ UNCHANGED <<fields, threads, engine, history, step_lock>>
    \/ /\ At(t, "step_350")
       /\ simExtStep(t, TRUE)
       /\ Release(t)
       /\ Return(t)
       /\ UNCHANGED <<fields, threads, engine, op, after_start, script, ncalls, rl_hist>>
step(t) ==
    \/ /\ At(t, "step_349")                     \* with utils.step_lock:
       /\ Acquire(t)
       /\ Goto(t, "step_350")
       /\ UNCHANGED <<fields, threads, engine, history>>
    \/ /\ At(t, "step_350")                     \* sim.simExtStep()
       /\ simExtStep(t, TRUE)
       /\ Release(t)
       /\ Return(t)
       /\ UNCHANGED <<fields, threads, engine, op, after_start, script, ncalls, rl_hist>>

step_ui(t) ==
    \/ /\ At(t, "step_ui_359")                  \* with utils.step_lock:
       /\ Acquire(t)
       /\ Goto(t, "step_ui_360")
       /\ UNCHANGED <<fields, threads, engine, history>>
    \/ /\ At(t, "step_ui_360")                  \* sim.simExtStep(False)
       /\ simExtStep(t, FALSE)
       /\ Release(t)
       /\ Return(t)
       /\ UNCHANGED <<fields, threads, engine, op, after_start, script, ncalls, rl_hist>>

\* ------------------------------------------------------------ start, stop
\* line 329: if not self.running:
StartNeeded_always == TRUE
StartNeeded == ~running

start(t) ==
    \/ /\ At(t, "start_327")                    \* if self._ui_thread is None: raise
       /\ ui_thread = None
       /\ Raise(t, ErrNotLaunched)
       /\ UNCHANGED <<fields, step_lock, threads, engine, history>>
    \/ /\ At(t, "start_327")                    \* if not self.running: (it is)
       /\ ui_thread # None
       /\ ~StartNeeded
       /\ Return(t)
       /\ after_start' = (t = Main \/ after_start)
       /\ UNCHANGED <<fields, step_lock, threads, engine, op, trace, script, ncalls, rl_hist>>
    \/ /\ At(t, "start_327")
       /\ ui_thread # None
       /\ StartNeeded
       /\ Goto(t, "start_330")
       /\ UNCHANGED <<fields, step_lock, threads, engine, history>>
    \/ /\ At(t, "start_330")                    \* sim.simStartSimulation()
       /\ sim_running' = TRUE
       /\ Log(t, "simStartSimulation")
       /\ Goto(t, "start_331")
       /\ UNCHANGED <<fields, step_lock, threads, can_init, sim_thread,
                      exit_request, op, after_start, script, ncalls, rl_hist>>
    \/ /\ At(t, "start_331")                    \* self.running = True
       /\ running' = TRUE
       /\ Log(t, "running=True")
       /\ Return(t)
       /\ after_start' = (t = Main \/ after_start)
       /\ UNCHANGED <<ui_thread, responsive_ui_thread, shutting_down, step_lock,
                      threads, engine, op, script, ncalls, rl_hist>>

\* the points of [self.step() for _ in range(5)]
StepCalls_4 == [k \in 1..(StopUiSteps - 1) |-> "step_349"]
StepCalls == [k \in 1..StopUiSteps |-> "step_349"]

stop(t) ==
    \/ /\ At(t, "stop_335")                     \* if self._ui_thread is None: raise
       /\ ui_thread = None
       /\ Raise(t, ErrNotLaunched)
       /\ UNCHANGED <<fields, step_lock, threads, engine, history>>
    \/ /\ At(t, "stop_335")                     \* if self.running: (it is not)
       /\ ui_thread # None
       /\ ~running
       /\ Return(t)
       /\ UNCHANGED <<fields, step_lock, threads, engine, history>>
    \/ /\ At(t, "stop_335")
       /\ ui_thread # None
       /\ running
       /\ Goto(t, "stop_338")
       /\ UNCHANGED <<fields, step_lock, threads, engine, history>>
    \/ /\ At(t, "stop_338")                     \* sim.simStopSimulation()
       /\ sim_running' = FALSE
       /\ Log(t, "simStopSimulation")
       /\ Goto(t, "stop_339")
       /\ UNCHANGED <<fields, step_lock, threads, can_init, sim_thread,
                      exit_request, op, after_start, script, ncalls, rl_hist>>
    \/ /\ At(t, "stop_339")                     \* self.running = False
       /\ running' = FALSE                      \* [self.step() for _ in range(5)]
       /\ Log(t, "running=False")
       /\ Push(t, StepCalls)
       /\ UNCHANGED <<ui_thread, responsive_ui_thread, shutting_down, step_lock,
                      threads, engine, op, after_start, script, ncalls, rl_hist>>

\* ------------------------------------------------------------ shutdown
\* Thread.join() returns: the thread's run method has ended
Joined_nowait(l) == TRUE
Joined(l) == pc[l] = <<"dead">>
\* lines 312-314: self.stop(); self.step_ui(); then the exit request
ShutdownCalls_nostop == <<"step_ui_359", "shutdown_314">>
ShutdownCalls == <<"stop_335", "step_ui_359", "shutdown_314">>
\* line 322: what shutdown leaves in self._ui_thread
ResetHandle_kept == ui_thread
ResetHandle == None

shutdown(t) ==
    \/ /\ At(t, "shutdown_308")                 \* if self._ui_thread is None: raise
       /\ ui_thread = None
       /\ Raise(t, ErrNotLaunched)
       /\ UNCHANGED <<fields, step_lock, threads, engine, history>>
    \/ /\ At(t, "shutdown_308")                 \* self._shutting_down = True
       /\ ui_thread # None                      \* self.stop(); self.step_ui()
       /\ shutting_down' = TRUE
       /\ Log(t, "_shutting_down=True")
       /\ Push(t, ShutdownCalls)
       /\ UNCHANGED <<running, ui_thread, responsive_ui_thread, step_lock,
                      threads, engine, op, after_start, script, ncalls, rl_hist>>
    \/ /\ At(t, "shutdown_314")                 \* sim.simExtPostExitRequest()
       /\ exit_request' = TRUE
       /\ Log(t, "simExtPostExitRequest")
       /\ Goto(t, "shutdown_315")
       /\ UNCHANGED <<fields, step_lock, threads, can_init, sim_thread,
                      sim_running, op, after_start, script, ncalls, rl_hist>>
    \/ /\ At(t, "shutdown_315")                 \* sim.simExtSimThreadDestroy()
       /\ sim_thread' = "destroyed"
       /\ Log(t, "simExtSimThreadDestroy")
       /\ Goto(t, "shutdown_316")
       /\ UNCHANGED <<fields, step_lock, threads, can_init, exit_request,
                      sim_running, op, after_start, script, ncalls, rl_hist>>
    \/ /\ At(t, "shutdown_316")                 \* self._ui_thread.join()
       /\ IF ui_thread = None
          THEN Raise(t, "AttributeError") /\ UNCHANGED trace
          ELSE /\ sess[ui_thread] = "done"
               /\ Log(t, "join(_ui_thread)")
               /\ Goto(t, "shutdown_317")
       /\ UNCHANGED <<fields, step_lock, threads, engine,
                      op, after_start, script, ncalls, rl_hist>>
    \/ /\ At(t, "shutdown_317")                 \* if self._responsive_ui_thread is not None:
       /\ responsive_ui_thread = None
       /\ Goto(t, "shutdown_322")
       /\ UNCHANGED <<fields, step_lock, threads, engine, history>>
    \/ /\ At(t, "shutdown_317")                 \* self._responsive_ui_thread.join()
       /\ responsive_ui_thread # None           \* joining the current thread raises
       /\ Loop(responsive_ui_thread) = t
       /\ Raise(t, "RuntimeError")
       /\ UNCHANGED <<fields, step_lock, threads, engine, history>>
    \/ /\ At(t, "shutdown_317")
       /\ responsive_ui_thread # None
       /\ Loop(responsive_ui_thread) # t
       /\ Joined(Loop(responsive_ui_thread))
       /\ Log(t, "join(_responsive_ui_thread)")
       /\ Goto(t, "shutdown_322")
       /\ UNCHANGED <<fields, step_lock, threads, engine,
                      op, after_start, script, ncalls, rl_hist>>
    \/ /\ At(t, "shutdown_322")                 \* self._ui_thread = None
       /\ ui_thread' = ResetHandle
       /\ Log(t, "_ui_thread=None")
       /\ Goto(t, "shutdown_323")
       /\ UNCHANGED <<running, responsive_ui_thread, shutting_down, step_lock,
                      threads, engine, op, after_start, script, ncalls, rl_hist>>
    \/ /\ At(t, "shutdown_323")                 \* self._shutting_down = False
       /\ shutting_down' = FALSE
       /\ Log(t, "_shutting_down=False")
       /\ Return(t)
       /\ UNCHANGED <<running, ui_thread, responsive_ui_thread, step_lock,
                      threads, engine, op, after_start, script, ncalls, rl_hist>>

\* ------------------------------------------------------------ launch
Steps(s) == Count(s, "step_adv") + Count(s, "step_ui")
\* line 110: len(scene_file) > 0 and not os.path.isfile(abs_scene_file)
SceneMissing_never(t) == FALSE
SceneMissing(t) == op[t].scene = "missing"
\* line 135: sim.lib.simExtCanInitSimThread()
Ready_always == TRUE
Ready == can_init
\* line 230: sim.lib.simExtGetExitRequest()
ExitObserved_always == TRUE
ExitObserved == exit_request
\* line 233: elif responsive_ui:
Responsive_always(t) == TRUE
Responsive(t) == op[t].responsive

launch(t) ==
    \/ /\ At(t, "launch_110")                   \* scene file given but not a file: raise
       /\ SceneMissing(t)
       /\ Raise(t, ErrSceneFile)
       /\ UNCHANGED <<fields, step_lock, threads, engine, history>>
    \/ /\ At(t, "launch_110")                   \* self._ui_thread = Thread(...); .start()
       /\ ~SceneMissing(t)
       /\ launches' = launches + 1
       /\ ui_thread' = launches + 1
       /\ sess' = [sess EXCEPT ![launches + 1] = "running"]
       /\ can_init' = FALSE                     \* the Session Thread boots a fresh engine
       /\ sim_thread' = "none"
       /\ exit_request' = FALSE
       /\ sim_running' = FALSE
       /\ trace' = [trace EXCEPT ![t] = @ \o <<"_ui_thread=Thread", "start(_ui_thread)">>]
       /\ op' = [op EXCEPT ![t].scene =         \* the scene is the Session Thread's from here
                    IF @ = "exists" THEN "" ELSE @]
       /\ Goto(t, "launch_135")
       /\ UNCHANGED <<running, responsive_ui_thread, shutting_down, step_lock,
                      after_start, script, ncalls, rl_hist>>
    \/ /\ At(t, "launch_135")                   \* while not simExtCanInitSimThread(): sleep
       /\ Ready
       /\ Log(t, "simExtCanInitSimThread")
       /\ Goto(t, "launch_138")
       /\ UNCHANGED <<fields, step_lock, threads, engine,
                      op, after_start, script, ncalls, rl_hist>>
    \/ /\ At(t, "launch_138")                   \* sim.lib.simExtSimThreadInit()
       /\ sim_thread' = "init"
       /\ Log(t, "simExtSimThreadInit")
       /\ Goto(t, "launch_144")
       /\ UNCHANGED <<fields, step_lock, threads, can_init, exit_request,
                      sim_running, op, after_start, script, ncalls, rl_hist>>
    \/ /\ At(t, "launch_144")                   \* with utils.step_lock:
       /\ Acquire(t)
       /\ Goto(t, "launch_145")
       /\ UNCHANGED <<fields, threads, engine, history>>
    \/ /\ At(t, "launch_145")                   \* sim.lib.simExtStep(True)
       /\ simExtStep(t, TRUE)                   \* then: if blocking: ... elif responsive_ui:
       /\ Release(t)                            \* ... else: self.step()
       /\ IF op[t].blocking THEN Goto(t, "launch_230")
          ELSE IF Responsive(t) THEN Goto(t, "launch_235")
          ELSE Push(t, <<"step_349">>)
       /\ UNCHANGED <<fields, threads, engine, op, after_start, script, ncalls, rl_hist>>
    \/ /\ At(t, "launch_230")                   \* while not simExtGetExitRequest():
       /\ ~ExitObserved
       /\ Steps(trace[t]) <= MaxBlockingSteps
       /\ Goto(t, "launch_231")
       /\ UNCHANGED <<fields, step_lock, threads, engine, history>>
    \/ /\ At(t, "launch_231")                   \* sim.lib.simExtStep(True), no lock taken
       /\ simExtStep(t, TRUE)
       /\ Goto(t, "launch_230")
       /\ UNCHANGED <<fields, step_lock, threads, engine,
                      op, after_start, script, ncalls, rl_hist>>
    \/ /\ At(t, "launch_230")                   \* self.shutdown()
       /\ ExitObserved
       /\ Push(t, <<"shutdown_308">>)
       /\ UNCHANGED <<fields, step_lock, threads, engine, history>>
    \/ /\ At(t, "launch_235")                   \* self._responsive_ui_thread = Thread(...)
       /\ responsive_ui_thread' = launches      \* .start(); self.step()
       /\ pc' = [pc EXCEPT ![t] = <<"step_349">> \o Tail(@),
                           ![Loop(launches)] = <<"rl_90">>]
       /\ trace' = [trace EXCEPT ![t] = @ \o <<"_responsive_ui_thread=Thread",
                                               "start(_responsive_ui_thread)">>]
       /\ UNCHANGED <<running, ui_thread, shutting_down, step_lock, result,
                      threads, engine, op, after_start, script, ncalls, rl_hist>>

\* ------------------------------------------------------------ Responsive Loop
\* line 98: if not self._shutting_down:
CallsShutdown_always == TRUE
CallsShutdown == ~shutting_down

\* line 92: break, inside the `with utils.step_lock:` block of line 91: the
\* block is left before the statement after the loop (line 98) is reached
Break_inside(t) == UNCHANGED step_lock
Break(t) == Release(t)

_run_responsive_ui_thread(t) ==
    \/ /\ At(t, "rl_90")                        \* if not self.running:
       /\ ~running                              \* (else: sleep and look again)
       /\ Goto(t, "rl_91")
       /\ UNCHANGED <<fields, step_lock, threads, engine, history>>
    \/ /\ At(t, "rl_91")                        \* with utils.step_lock:
       /\ Acquire(t)
       /\ Goto(t, "rl_92")
       /\ UNCHANGED <<fields, threads, engine, history>>
    \/ /\ At(t, "rl_92")                        \* if self._shutting_down ...: break
       /\ shutting_down
       /\ Break(t)
       /\ rl_hist' = [rl_hist EXCEPT ![t].broke = "shutting_down", ![t].sd = TRUE]
       /\ Goto(t, "rl_98")
       /\ UNCHANGED <<fields, threads, engine, op, trace, after_start, script, ncalls>>
    \/ /\ At(t, "rl_92")
       /\ ~shutting_down
       /\ Goto(t, "rl_92x")
       /\ UNCHANGED <<fields, step_lock, threads, engine, history>>
    \/ /\ At(t, "rl_92x")                       \* ... or sim.simExtGetExitRequest(): break
       /\ exit_request
       /\ Break(t)
       /\ rl_hist' = [rl_hist EXCEPT ![t].broke = "exit", ![t].sd = shutting_down]
       /\ Goto(t, "rl_98")
       /\ UNCHANGED <<fields, threads, engine, op, trace, after_start, script, ncalls>>
    \/ /\ At(t, "rl_92x")
       /\ ~exit_request
       /\ Goto(t, "rl_94")
       /\ UNCHANGED <<fields, step_lock, threads, engine, history>>
    \/ /\ At(t, "rl_94")                        \* sim.simExtStep(False)
       /\ simExtStep(t, FALSE)
       /\ Release(t)
       /\ Goto(t, "rl_90")
       /\ UNCHANGED <<fields, threads, engine, op, after_start, script, ncalls, rl_hist>>
    \/ /\ At(t, "rl_98")                        \* if not self._shutting_down:
       /\ CallsShutdown                         \*     self.shutdown()
       /\ op' = [op EXCEPT ![t] = [NoOp EXCEPT !.name = "shutdown",
                                               !.launched = ui_thread # None]]
       /\ rl_hist' = [rl_hist EXCEPT ![t].calls = @ + 1]
       /\ Push(t, <<"shutdown_308">>)
       /\ UNCHANGED <<fields, step_lock, threads, engine, trace, after_start, script, ncalls>>
    \/ /\ At(t, "rl_98")
       /\ ~CallsShutdown
       /\ Return(t)
       /\ UNCHANGED <<fields, step_lock, threads, engine, history>>

\* ------------------------------------------------------------ callers
Entry(name) ==
    CASE name = "launch"   -> "launch_110"
      [] name = "start"    -> "start_327"
      [] name = "stop"     -> "stop_335"
      [] name = "step"     -> "step_349"
      [] name = "step_ui"  -> "step_ui_359"
      [] name = "shutdown" -> "shutdown_308"

\* the end-to-end run: launch("", headless, non-blocking), start, 5 x step,
\* stop, shutdown; 0 when the caller is not on it
NextScript(name, first) ==
    IF name = "launch" THEN (IF first THEN 1 ELSE 0)
    ELSE IF script = 1 /\ name = "start" THEN 2
    ELSE IF script \in 2..6 /\ name = "step" THEN script + 1
    ELSE IF script = 7 /\ name = "stop" THEN 8
    ELSE IF script = 8 /\ name = "shutdown" THEN 9
    ELSE 0

\* the caller thread, idle, makes the call o (the second caller thread keeps
\* no history of its calls)
Enter(t, o, first) ==
    /\ pc[t] = <<>>
    /\ pc' = [pc EXCEPT ![t] = <<Entry(o.name)>>]
    /\ op' = [op EXCEPT ![t] = IF t = Main THEN o ELSE @]
    /\ after_start' = IF t = Main THEN (after_start /\ o.name = "stop") ELSE after_start
    /\ script' = IF t = Main THEN NextScript(o.name, first) ELSE script
    /\ UNCHANGED <<fields, step_lock, result, threads, engine, trace, rl_hist>>
Invoke(t, o, first) == Enter(t, o, first) /\ UNCHANGED ncalls
\* the same, by a caller that makes MaxCalls calls at most
Counted(t, o, first) ==
    /\ ncalls < MaxCalls
    /\ Enter(t, o, first)
    /\ ncalls' = ncalls + 1

Op(name) == [NoOp EXCEPT !.name = name, !.launched = ui_thread # None]

\* launch is called on an UNLAUNCHED controller (its documented precondition);
\* a call with a scene file that does not exist is made in any state
CallLaunch(max, scene, headless, responsive, blocking) ==
    /\ scene = "missing" \/ (ui_thread = None /\ launches < max)
    /\ Invoke(Main, [name |-> "launch", scene |-> scene, responsive |-> responsive,
                     blocking |-> blocking, launched |-> ui_thread # None],
              scene = "" /\ headless /\ ~blocking /\ ui_thread = None)
\* launch is called in any state, on a launched controller too
CallRelaunch(scene, headless, responsive, blocking) ==
    /\ launches < MaxLaunch
    /\ Counted(Main, [name |-> "launch", scene |-> scene, responsive |-> responsive,
                      blocking |-> blocking, launched |-> ui_thread # None],
               scene = "" /\ headless /\ ~blocking /\ ui_thread = None)
CallStart     == Invoke(Main, Op("start"), FALSE)
CallStop      == Invoke(Main, Op("stop"), FALSE)
CallShutdown  == Invoke(Main, Op("shutdown"), FALSE)
CallStep(t)   == Invoke(t, Op("step"), FALSE)
CallStepUi(t) == Invoke(t, Op("step_ui"), FALSE)

\* the caller has its call's outcome and is idle again
Idle(t) ==
    /\ pc[t] = <<"ret">>
    /\ pc' = [pc EXCEPT ![t] = <<>>]
    /\ result' = [result EXCEPT ![t] = "none"]
    /\ op' = [op EXCEPT ![t] = NoOp]
    /\ trace' = [trace EXCEPT ![t] = <<>>]
    /\ after_start' = IF op[t].name = "stop" THEN FALSE ELSE after_start
    /\ UNCHANGED <<fields, step_lock, threads, engine, script, ncalls, rl_hist>>

\* a Responsive Loop thread whose run method ended, normally or by an
\* exception, is dead
ThreadExit(t) ==
    /\ pc[t] = <<"exit">>
    /\ pc' = [pc EXCEPT ![t] = <<"dead">>]
    /\ result' = [result EXCEPT ![t] = "none"]
    /\ op' = [op EXCEPT ![t] = NoOp]
    /\ trace' = [trace EXCEPT ![t] = <<>>]
    /\ rl_hist' = [rl_hist EXCEPT ![t] = NoHist]
    /\ UNCHANGED <<fields, step_lock, threads, engine, after_start, script, ncalls>>

\* ------------------------------------------------------------ specification
Init ==
    /\ running = FALSE
    /\ ui_thread = None
    /\ responsive_ui_thread = None
    /\ shutting_down = FALSE
    /\ step_lock = Free
    /\ pc = [t \in Threads |-> IF t \in Callers THEN <<>> ELSE <<"unstarted">>]
    /\ result = [t \in Threads |-> "none"]
    /\ sess = [i \in 1..MaxLaunch |-> "unstarted"]
    /\ launches = 0
    /\ can_init = FALSE
    /\ sim_thread = "none"
    /\ exit_request = FALSE
    /\ sim_running = FALSE
    /\ op = [t \in Threads |-> NoOp]
    /\ trace = [t \in Threads |-> <<>>]
    /\ after_start = FALSE
    /\ script = 0
    /\ rl_hist = [t \in Loops |-> NoHist]
    /\ ncalls = 0

\* the steps of the threads, the Session Threads and the engine
Run ==
    \/ Idle(Main)
    \/ \E t \in Threads : launch(t)
    \/ \E t \in Threads : start(t)
    \/ \E t \in Threads : stop(t)
    \/ \E t \in Threads : step(t)
    \/ \E t \in Threads : step_ui(t)
    \/ \E t \in Threads : shutdown(t)
    \/ \E t \in Loops : _run_responsive_ui_thread(t)
    \/ \E t \in Loops : ThreadExit(t)
    \/ \E i \in 1..MaxLaunch : _run_ui_thread(i)
    \/ EngineReady
    \/ UserExit

\* one caller thread makes every call
Next ==
    \/ \E scene \in Scenes, headless, responsive, blocking \in BOOLEAN :
          CallLaunch(MaxLaunch, scene, headless, responsive, blocking)
    \/ CallStart
    \/ CallStop
    \/ CallShutdown
    \/ CallStep(Main)
    \/ CallStepUi(Main)
    \/ Run

Spec == Init /\ [][Next]_vars

\* a second caller thread calls step() and step_ui() beside the first
NextTwoCallers ==
    \/ \E scene \in Scenes, headless, responsive, blocking \in BOOLEAN :
          CallLaunch(MaxLaunchTwoCallers, scene, headless, responsive, blocking)
    \/ CallStart
    \/ CallStop
    \/ CallShutdown
    \/ \E t \in Callers : CallStep(t)
    \/ \E t \in Callers : CallStepUi(t)
    \/ Run

SpecTwoCallers == Init /\ [][NextTwoCallers]_vars

\* the caller calls launch whatever the state of the controller
NextRelaunch ==
    \/ \E scene \in Scenes, headless, responsive, blocking \in BOOLEAN :
          CallRelaunch(scene, headless, responsive, blocking)
    \/ \E name \in {"start", "stop", "shutdown", "step", "step_ui"} :
          Counted(Main, Op(name), FALSE)
    \/ Run

SpecRelaunch == Init /\ [][NextRelaunch]_vars

\* ------------------------------------------------------------ failing steps
\* the error of an engine step call that fails
ErrStep == "Exception: simExtStep"
\* a `with utils.step_lock:` block left by an exception
LeaveBlock_kept(t) == UNCHANGED step_lock
LeaveBlock(t) == Release(t)

\* the engine step call a thread is in raises
StepFails(t) ==
    \/ /\ At(t, "step_350") \/ At(t, "step_ui_360")   \* step(), step_ui(): the
       /\ LeaveBlock(t)                                \* exception leaves the block
       /\ Log(t, "step_failed")                        \* and goes to the caller
       /\ Raise(t, ErrStep)
       /\ UNCHANGED <<fields, threads, engine, op, after_start, script, ncalls, rl_hist>>
    \/ /\ At(t, "rl_94")                        \* the loop: the thread ends
       /\ LeaveBlock(t)
       /\ Log(t, "step_failed")
       /\ Raise(t, ErrStep)
       /\ UNCHANGED <<fields, threads, engine, op, after_start, script, ncalls, rl_hist>>
    \/ /\ At(t, "launch_145")                   \* launch, preliminary step:
       /\ LeaveBlock(t)                         \* except Exception: print(...)
       /\ Log(t, "step_failed")                 \* then the mode dispatch
       /\ IF op[t].blocking THEN Goto(t, "launch_230")
          ELSE IF Responsive(t) THEN Goto(t, "launch_235")
          ELSE Push(t, <<"step_349">>)
       /\ UNCHANGED <<fields, threads, engine, op, after_start, script, ncalls, rl_hist>>
    \/ /\ At(t, "launch_231")                   \* launch, blocking loop: no block
       /\ Log(t, "step_failed")                 \* to leave, the exception goes
       /\ Raise(t, ErrStep)                     \* to the caller
       /\ UNCHANGED <<fields, step_lock, threads, engine, op, after_start,
                      script, ncalls, rl_hist>>

\* as Next, and an engine step call may fail
NextStepFails ==
    \/ Next
    \/ \E t \in Threads : StepFails(t)

SpecStepFails == Init /\ [][NextStepFails]_vars

\* ------------------------------------------------------------ fairness
\* the steps of one thread inside the methods it executes
ThreadStep(t) ==
    \/ launch(t)
    \/ start(t)
    \/ stop(t)
    \/ step(t)
    \/ step_ui(t)
    \/ shutdown(t)
    \/ t \in Loops /\ _run_responsive_ui_thread(t)
    \/ t \in Loops /\ ThreadExit(t)

\* every thread that can take a step again and again takes one (the loops
\* sleep between two takings of the step lock, so a waiting thread gets it);
\* a Session Thread that can end does; the engine becomes ready.  The caller
\* need not make another call, and the user need not close the window.
Fairness ==
    /\ \A t \in Threads : SF_vars(ThreadStep(t))
    /\ \A i \in 1..MaxLaunch : WF_vars(_run_ui_thread(i))
    /\ WF_vars(EngineReady)

SpecFair == Spec /\ Fairness

\* ------------------------------------------------------------ claims
Returned(name) == pc[Main] = <<"ret">> /\ op[Main].name = name
\* a thread is inside the engine's step call made by step(), step_ui() or
\* the Responsive Loop
InStep(t) == At(t, "step_350") \/ At(t, "step_ui_360") \/ At(t, "rl_94")
\* a thread is inside any step call into the engine
InEngineStep(t) == InStep(t) \/ At(t, "launch_145") \/ At(t, "launch_231")
\* the controller is in state LAUNCHED: a session thread, and no shutdown begun
InLaunched == ui_thread # None /\ ~shutting_down
\* a thread is inside the body of shutdown(): past line 311, not past 323
InShutdownBody(t) ==
    \E k \in 1..Len(pc[t]) :
        pc[t][k] \in {"shutdown_314", "shutdown_315", "shutdown_316",
                      "shutdown_317", "shutdown_322", "shutdown_323"}
\* the caller thread is inside the body of shutdown()
CallerInShutdown ==
    /\ pc[Main] # <<"ret">>
    /\ Count(trace[Main], "_shutting_down=True") > 0

\* C1: on a controller with no session thread, start(), stop(), step() and
\* shutdown() each fail with the error for a call before launch
\* (NotLaunchedError), having made no engine call and no write to the
\* controller's fields.
C1_FailsWhenNotLaunched ==
    \A name \in {"start", "stop", "step", "shutdown"} :
        (Returned(name) /\ ~op[Main].launched)
            => (result[Main] = ErrNotLaunched /\ trace[Main] = <<>>)

\* C2: whatever the interleaving of step() and step_ui() calls of the two
\* caller threads and of the Responsive Loop, at most one thread is inside
\* the engine's step call.
C2_StepCallsExclusive ==
    Cardinality({t \in Threads : InStep(t)}) <= 1

\* C2 witness: one caller is inside the step call while the other caller and
\* a Responsive Loop are at the gate.
C2_Contention ==
    /\ At(Aux, "step_350")
    /\ At(Main, "step_ui_359")
    /\ \E l \in Loops : At(l, "rl_91")

\* C3: a thread that is inside a step call into the engine holds the step
\* lock: step(), step_ui(), the steps of stop(), the preliminary step of
\* launch, the Responsive Loop and the loop of launch(blocking=True).
C3_StepCallsHoldGate ==
    \A t \in Threads : InEngineStep(t) => step_lock = t

\* C4: a Responsive Loop calls shutdown() at most once; it calls it exactly
\* once when it left its loop on the ExitSignal and the caller is not in
\* shutdown(); it does not call it when _shutting_down was set as it left
\* its loop.
C4_LoopShutsDownOnce ==
    \A l \in Loops :
        /\ rl_hist[l].calls <= 1
        /\ pc[l] = <<"exit">> =>
              /\ rl_hist[l].sd => rl_hist[l].calls = 0
              /\ (rl_hist[l].broke = "exit" /\ ~CallerInShutdown)
                    => rl_hist[l].calls = 1

\* C4 witness: a Responsive Loop that left its loop on the ExitSignal has
\* ended after calling shutdown() itself.
C4_SelfTriggered ==
    \E l \in Loops :
        /\ pc[l] = <<"exit">>
        /\ rl_hist[l].broke = "exit"
        /\ rl_hist[l].calls = 1

\* C5: a shutdown() that passed its precondition, on whatever thread, ends
\* normally with no session thread handle and _shutting_down false.
C5_ShutdownCompletes ==
    \A t \in {Main} \cup Loops :
        (pc[t] = Ended(t) /\ Count(trace[t], "_shutting_down=True") > 0)
            => (result[t] = "ok" /\ ui_thread = None /\ ~shutting_down)

\* C6: when shutdown() has completed the controller is as it was at the
\* start (not running, not shutting down, no session thread); a shutdown()
\* called then fails with NotLaunchedError; every launch with a usable scene
\* succeeds, and a non-blocking one leaves the handle of a Session Thread
\* that this launch started, stopped; the Session Threads started are as
\* many as the launches.
C6_RestartCycle ==
    /\ (Returned("shutdown") /\ result[Main] = "ok")
          => (~running /\ ~shutting_down /\ ui_thread = None)
    /\ (Returned("shutdown") /\ ~op[Main].launched)
          => result[Main] = ErrNotLaunched
    /\ (Returned("launch") /\ op[Main].scene # "missing")
          => /\ result[Main] = "ok"
             /\ ~op[Main].blocking
                   => (ui_thread = launches /\ launches > 0 /\ ~running)
    /\ \A i \in 1..MaxLaunch : (sess[i] # "unstarted") <=> (i <= launches)
    /\ ui_thread \in {None, launches}

\* C6 witness: the second launch has returned.
C6_SecondLaunch ==
    /\ Returned("launch")
    /\ result[Main] = "ok"
    /\ ~op[Main].blocking
    /\ launches = 2

\* C7: in the run launch("", headless, non-blocking), start(), five step(),
\* stop(), shutdown() no call fails, and when shutdown() returns no Session
\* Thread and no Responsive Loop is alive: both were joined.
C7_EndToEndRun ==
    (script > 0 /\ pc[Main] = <<"ret">>) =>
        /\ result[Main] = "ok"
        /\ script = 9 =>
              /\ \A i \in 1..MaxLaunch : sess[i] # "running"
              /\ \A l \in Loops : pc[l] \in {<<"unstarted">>, <<"dead">>}
              /\ Count(trace[Main], "join(_ui_thread)") = 1
              /\ pc[Loop(launches)] # <<"unstarted">>
                    => Count(trace[Main], "join(_responsive_ui_thread)") = 1

\* C7 witness: the run has ended, with a Responsive Loop that was started.
C7_RunEnded ==
    /\ script = 9
    /\ pc[Main] = <<"ret">>
    /\ pc[Loop(launches)] = <<"dead">>

\* C8: when launch(blocking=False, responsive_ui=False) returns, the session
\* thread handle is set, running and _shutting_down are false, this launch
\* started no Responsive Loop, and the step lock is free.
C8_LaunchedStopped ==
    (Returned("launch") /\ op[Main].scene # "missing"
        /\ ~op[Main].blocking /\ ~op[Main].responsive) =>
        /\ result[Main] = "ok"
        /\ ui_thread # None
        /\ ~running
        /\ ~shutting_down
        /\ pc[Loop(launches)] = <<"unstarted">>
        /\ step_lock = Free

\* C8 witness: such a launch has returned.
C8_PlainLaunchReturned ==
    /\ Returned("launch")
    /\ op[Main].scene # "missing"
    /\ ~op[Main].blocking
    /\ ~op[Main].responsive

C10_MissingSceneFails ==
    (Returned("launch") /\ op[Main].scene = "missing") =>
        /\ result[Main] = ErrSceneFile
        /\ trace[Main] = <<>>

\* C10 witness: such a launch, made on a launched controller, has returned.
C10_MissingSceneReturned ==
    /\ Returned("launch")
    /\ op[Main].scene = "missing"
    /\ op[Main].launched

\* C11: in every reachable state, whatever calls the caller has made (launch
\* on a launched controller among them) and whatever a Responsive Loop has
\* done, running = true implies that the session thread handle is set.
C11_RunningImpliesLaunched ==
    running => ui_thread # None

\* C12: at most one Session Thread is alive at any time, and the controller
\* holds the handle of every Session Thread that is alive: a launch never
\* starts a second one beside it, nor drops its handle.
C12_OneSessionLive ==
    /\ Cardinality({i \in 1..MaxLaunch : sess[i] = "running"}) <= 1
    /\ \A i \in 1..MaxLaunch : sess[i] = "running" => ui_thread = i

\* C13: once a Responsive Loop has left its loop on the ExitSignal and called
\* shutdown() itself, the controller eventually is unlaunched (no session
\* thread handle, not shutting down), or the caller has called shutdown().
C13_LoopTearsDown ==
    \A l \in Loops :
        (rl_hist[l].calls = 1)
            ~> ((ui_thread = None /\ ~shutting_down) \/ op[Main].name = "shutdown")

\* C14: at most one thread is inside the body of shutdown() (lines 311-323)
\* at any time: a Responsive Loop's own shutdown() and the caller's never
\* overlap.
C14_ShutdownSerialized ==
    Cardinality({t \in Threads : InShutdownBody(t)}) <= 1

\* C15: a Responsive Loop is never inside its engine step call (line 94)
\* while running is true.
C15_LoopStepsOnlyWhenStopped ==
    \A l \in Loops : At(l, "rl_94") => ~running

\* the calls and writes of one shutdown(), in the order of lines 311-323:
\* stopped tells whether stop() found the simulation running, joins whether
\* there is a Responsive Loop to join
ShutdownOrder(stopped, joins) ==
    <<"_shutting_down=True">>
    \o (IF stopped
        THEN <<"simStopSimulation", "running=False">>
             \o [k \in 1..StopUiSteps |-> "step_ui"]
        ELSE <<>>)
    \o <<"step_ui", "simExtPostExitRequest", "simExtSimThreadDestroy",
         "join(_ui_thread)">>
    \o (IF joins THEN <<"join(_responsive_ui_thread)">> ELSE <<>>)
    \o <<"_ui_thread=None", "_shutting_down=False">>
IsPrefix(s, q) == Len(s) <= Len(q) /\ s = SubSeq(q, 1, Len(s))
\* the same record, whether a step() advanced physics or not left aside (a
\* start() of the caller during a loop's shutdown() restarts the simulation)
AnyStep(s) == [k \in 1..Len(s) |-> IF s[k] = "step_adv" THEN "step_ui" ELSE s[k]]

IsSuffix(q, s) == Len(q) <= Len(s) /\ q = SubSeq(s, Len(s) - Len(q) + 1, Len(s))
\* the caller is in a launch(blocking=True)
InBlockingLaunch ==
    op[Main].name = "launch" /\ op[Main].blocking /\ op[Main].scene # "missing"

\* C17, safety: a launch(blocking=True) begins shutdown() only when the exit
\* request is raised (until then it is in its stepping loop, lines 230-231);
\* when it returns, the last thing it did is a complete shutdown(), and the
\* controller is unlaunched, not running and not shutting down.
C17_BlockingSafe ==
    /\ (InBlockingLaunch /\ Count(trace[Main], "_shutting_down=True") > 0)
          => exit_request
    /\ (InBlockingLaunch /\ pc[Main] = <<"ret">>) =>
          /\ result[Main] = "ok"
          /\ \E joins \in BOOLEAN :
                IsSuffix(ShutdownOrder(FALSE, joins), trace[Main])
          /\ ui_thread = None
          /\ ~running
          /\ ~shutting_down

\* C17: the above holds in every state, and once the exit request is raised
\* a launch(blocking=True) that is in its stepping loop calls shutdown() and
\* returns.
C17_Blocking ==
    /\ []C17_BlockingSafe
    /\ (InBlockingLaunch /\ At(Main, "launch_230") /\ exit_request)
          ~> (InBlockingLaunch /\ pc[Main] = <<"ret">>)

\* C17 witness: a launch(blocking=True) has returned.
C17_BlockingReturned ==
    /\ InBlockingLaunch
    /\ pc[Main] = <<"ret">>
    /\ Steps(trace[Main]) > MaxBlockingSteps

\* the handshake of launch, lines 129-145: the Session Thread created and
\* started, readiness polled until true, the initialization call, the
\* preliminary step
Handshake ==
    <<"_ui_thread=Thread", "start(_ui_thread)", "simExtCanInitSimThread",
      "simExtSimThreadInit", "step_ui">>
\* the caller is in a launch, past its check of the scene file
InLaunch == op[Main].name = "launch" /\ op[Main].scene # "missing"

\* C18, order: what a launch has done so far begins with, or is a beginning
\* of, the handshake: thread started, readiness seen true, one
\* initialization call, the preliminary step; the initialization call is made
\* once, with the engine ready, and a launch that has returned has seen the
\* engine ready.
C18_HandshakeOrder ==
    InLaunch =>
        /\ IsPrefix(trace[Main], Handshake) \/ IsPrefix(Handshake, trace[Main])
        /\ Count(trace[Main], "simExtSimThreadInit") <= 1
        /\ Count(trace[Main], "simExtSimThreadInit") = 1 => can_init
        /\ pc[Main] = <<"ret">> => IsPrefix(Handshake, trace[Main])

\* C18: the order above holds in every state, and a launch (not blocking)
\* that waits for the engine to be ready returns.
C18_Handshake ==
    /\ []C18_HandshakeOrder
    /\ (InLaunch /\ ~op[Main].blocking /\ At(Main, "launch_135"))
          ~> (InLaunch /\ pc[Main] = <<"ret">>)

\* C18 witness: a launch waits for the engine, which is not ready yet.
C18_Waiting ==
    /\ InLaunch
    /\ ~op[Main].blocking
    /\ At(Main, "launch_135")
    /\ ~can_init

\* thread t takes a step
Steps_of(t) == pc'[t] # pc[t]
\* thread t returns from the method it is in, and nothing else changes
ReturnsUnchanged(t) ==
    /\ pc'[t] = IF Len(pc[t]) = 1 THEN Ended(t) ELSE Tail(pc[t])
    /\ UNCHANGED <<fields, step_lock, threads, engine, trace>>

InGateBlock(t) ==
    \/ At(t, "step_350") \/ At(t, "step_ui_360") \/ At(t, "launch_145")
    \/ At(t, "rl_92") \/ At(t, "rl_92x") \/ At(t, "rl_94")
\* the exits of the `with utils.step_lock:` blocks keep the step lock to the
\* blocks
C20_GateOnlyInBlocks ==
    /\ \A t \in Threads : step_lock = t => InGateBlock(t)
    /\ step_lock \in Threads \cup {Free}
\* the preliminary step of the caller's launch has failed
PrelimStepFailed ==
    /\ InLaunch
    /\ Len(trace[Main]) >= Len(Handshake)
    /\ trace[Main][Len(Handshake)] = "step_failed"
\* a step of the caller in which the preliminary step of its launch fails
PrelimStepFails == At(Main, "launch_145") /\ ~PrelimStepFailed /\ PrelimStepFailed'

\* C20: a thread holds the step lock only inside a `with utils.step_lock:`
\* block: once step(), step_ui(), a Responsive Loop iteration (the breaking
\* one too) or the preliminary step of launch has ended, with or without an
\* error of the engine step call, the thread does not hold it.  When the
\* preliminary step of launch fails, launch has no error and is at its mode
\* dispatch.
C20_GateReleased ==
    /\ []C20_GateOnlyInBlocks
    /\ [][PrelimStepFails =>
            /\ result'[Main] = "none"
            /\ step_lock' # Main
            /\ \/ At(Main, "launch_230")' \/ At(Main, "launch_235")'
               \/ At(Main, "step_349")']_vars

\* C20 witness: the preliminary step of the caller's launch failed, the
\* launch went on through its dispatch and has returned without an error, and
\* the step lock is free.
C20_StepFailed ==
    /\ PrelimStepFailed
    /\ Returned("launch")
    /\ result[Main] = "ok"
    /\ step_lock = Free

\* a thread is about to enter a `with utils.step_lock:` block
AtAcquire(t) ==
    \/ At(t, "step_349") \/ At(t, "step_ui_359")
    \/ At(t, "launch_144") \/ At(t, "rl_91")

\* C21: no thread comes to a `with utils.step_lock:` while it holds the step
\* lock; a Responsive Loop is past its loop, where it may call shutdown(),
\* only without the lock; no thread enters stop() or shutdown() holding it.
C21_NoReentrantAcquire ==
    /\ \A t \in Threads : AtAcquire(t) => step_lock # t
    /\ \A l \in Loops : At(l, "rl_98") => step_lock # l
    /\ \A t \in Threads :
          (At(t, "stop_335") \/ At(t, "shutdown_308")) => step_lock # t

\* C21 witness: a Responsive Loop that broke out of its loop inside the block
\* has called shutdown() and, inside it, has come to the step lock of
\* step_ui(), which it does not hold.
C21_LoopReacquires ==
    \E l \in Loops :
        /\ rl_hist[l].calls = 1
        /\ rl_hist[l].broke # ""
        /\ InShutdownBody(l)
        /\ At(l, "step_ui_359")
        /\ step_lock # l

====
